---- MODULE Spec2Model ----
(***************************************************************************)
(* A model of RNS/Interfaces/AX25KISSInterface.py: the KISS frame builder  *)
(* of process_outgoing, the byte-at-a-time parser of readLoop, the         *)
(* flow-control queue, and the open / configure / reconnect lifecycle,     *)
(* with the caller's thread and the reader threads interleaved statement   *)
(* by statement (the source takes no lock).                                *)
(***************************************************************************)
EXTENDS Integers, Sequences, FiniteSets, TLC

\* ------------------------------------------------------------ constants

FEND == 192
FESC == 219
TFEND == 220
TFESC == 221
CMD_UNKNOWN == 254
CMD_DATA == 0
CMD_TXDELAY == 1
CMD_P == 2
CMD_SLOTTIME == 3
CMD_TXTAIL == 4
CMD_READY == 15
PID_NOLAYER3 == 240
CTRL_UI == 3
HEADER_SIZE == 16
HW_MTU == 564
\* self.timeout, in milliseconds
timeout == 100
\* self.flow_control_timeout, in seconds
flow_control_timeout == 5
dst_call == <<65, 80, 90, 82, 78, 83>>
dst_ssid == 0
\* the defaults of preamble, txtail, persistence and slottime
preamble == 350
txtail == 20
persistence == 64
slottime == 20

\* ------------------------------------------------------------ bounds

\* reader threads that can exist at one time
MaxReaders == 2
\* payloads the owner submits in one run of SpecFlow
MaxSends == 3
\* payloads the owner submits in one run of Spec
MaxSubmit == 2
\* longest payload of the codec specification
MaxLen == 2
\* bytes the device may have pending in the receive buffer when it sends another
MaxRx == 1
\* the device sends no further byte to a reader whose buffer holds MaxBuf bytes
MaxBuf == 2
\* the clock advances in steps of TickStep milliseconds up to MaxTime
TickStep == 5001
MaxTime == 5001

Main == 0
Readers == 1..MaxReaders
Threads == 0..MaxReaders

\* payload bytes of the codec specification: the reserved bytes and a plain one
Bytes == {FEND, FESC, TFEND, TFESC, 65}
\* bytes the device sends in the interleaved specification
FeedBytes == {FEND, CMD_READY}

RECURSIVE SeqsUpTo(_, _)
SeqsUpTo(S, n) ==
    IF n = 0 THEN {<<>>}
    ELSE LET shorter == SeqsUpTo(S, n - 1)
         IN  shorter \cup {Append(s, b) : s \in {x \in shorter : Len(x) = n - 1}, b \in S}

Payloads == SeqsUpTo(Bytes, MaxLen)
\* payloads of SpecLink
LinkPayloads == {<<FEND, 66>>}

\* configured callsigns: prefixes of these spellings (lower case is folded by upper())
CallSpellings == {<<65, 98, 67, 68, 69, 70, 71>>, <<96, 66, 67, 68, 69, 70, 71>>}
CallLens == {0, 2, 3, 5, 6, 7}
Ssids == {-1, 0, 1, 5, 15, 16}

\* ------------------------------------------------------------ pure functions

RECURSIVE Pow2(_)
Pow2(n) == IF n = 0 THEN 1 ELSE 2 * Pow2(n - 1)

\* x << n on Python integers
ShiftLeft(x, n) == x * Pow2(n)

\* a | b on non-negative integers
RECURSIVE BitOr(_, _)
BitOr(a, b) ==
    IF a = 0 THEN b
    ELSE IF b = 0 THEN a
    ELSE (IF (a % 2 = 1) \/ (b % 2 = 1) THEN 1 ELSE 0) + 2 * BitOr(a \div 2, b \div 2)

\* a & b on non-negative integers
RECURSIVE BitAnd(_, _)
BitAnd(a, b) ==
    IF a = 0 \/ b = 0 THEN 0
    ELSE (IF (a % 2 = 1) /\ (b % 2 = 1) THEN 1 ELSE 0) + 2 * BitAnd(a \div 2, b \div 2)

\* str.upper() on ASCII codes
upper(s) == [i \in 1..Len(s) |-> IF s[i] >= 97 /\ s[i] <= 122 THEN s[i] - 32 ELSE s[i]]

\* bytes.replace(bytes([old]), new): every occurrence of the byte, left to right
RECURSIVE replace(_, _, _)
replace(data, old, new) ==
    IF data = <<>> THEN <<>>
    ELSE (IF Head(data) = old THEN new ELSE <<Head(data)>>) \o replace(Tail(data), old, new)

\* int(ms / 10) clamped to a byte (the setters' command value)
command_value(ms) ==
    LET v == ms \div 10
    IN  IF v < 0 THEN 0 ELSE IF v > 255 THEN 255 ELSE v

clamp_byte(v) == IF v < 0 THEN 0 ELSE IF v > 255 THEN 255 ELSE v

kiss_command(cmd, value) == <<FEND, cmd, value, FEND>>

\* ------------------------------------------------------------ state

VARIABLES
    cfg,                  \* the configuration handed to the constructor
    src_call, src_ssid, flow_control,
    online, interface_ready, packet_queue, flow_control_locked,
    serial,               \* self.serial: "none", "open" or "closed"
    rx,                   \* bytes the device has sent and the host has not read
    now,                  \* the clock, in milliseconds
    pc,                   \* each thread's position in the code
    call,                 \* each thread's process_queue / process_outgoing locals
    rl,                   \* each reader thread's readLoop locals
    raised,               \* the exception the caller of the main thread last got
    inbound,              \* the payloads handed to owner.inbound, in order
    last_write,           \* the last frame handed to serial.write, and whether it was cut
    nsub,                 \* payloads the owner has submitted
    attempt,              \* per thread in reconnect_port: how its last attempt ended
    data_since_grant      \* complete data frames written since readiness was last granted

vars == <<cfg, src_call, src_ssid, flow_control, online, interface_ready, packet_queue,
          flow_control_locked, serial, rx, now, pc, call, rl, raised, inbound,
          last_write, nsub, attempt, data_since_grant>>

\* readLoop lines 318-322; drains counts the process_queue calls of the current
\* frame, expired tells that the idle time-out has discarded a buffer and no
\* delimiter has been read since
rl_locals(t0) ==
    [in_frame |-> FALSE, escape |-> FALSE, command |-> CMD_UNKNOWN,
     data_buffer |-> <<>>, last_read_ms |-> t0, drains |-> 0, expired |-> FALSE]

\* no call in progress
no_call == [data |-> <<>>, popped |-> FALSE, src |-> "none", locked0 |-> 0]

no_write == [kind |-> "none", payload |-> <<>>, bytes |-> <<>>, complete |-> TRUE]

\* ------------------------------------------------------------ the frame builder

\* process_outgoing lines 273-287: six address bytes and the SSID byte
address(callsign, encoded_ssid) ==
    [i \in 1..6 |-> IF i <= Len(callsign) THEN ShiftLeft(callsign[i], 1) ELSE 32]
        \o <<encoded_ssid>>

encoded_dst_ssid == BitOr(96, ShiftLeft(dst_ssid, 1))
encoded_src_ssid == BitOr(BitOr(96, ShiftLeft(src_ssid, 1)), 1)

addr == address(dst_call, encoded_dst_ssid) \o address(src_call, encoded_src_ssid)

\* KISS.escape lines 54-58
escape(data) ==
    replace(replace(data, FESC, <<FESC, TFESC>>), FEND, <<FESC, TFEND>>)

\* a frame builder that escapes the delimiter before the escape byte
kiss_frame_delimiter_first(data) ==
    LET d0 == addr \o <<CTRL_UI>> \o <<PID_NOLAYER3>> \o data
        d1 == replace(d0, FEND, <<FESC, TFEND>>)
        d2 == replace(d1, FESC, <<FESC, TFESC>>)
    IN  <<FEND, 0>> \o d2 \o <<FEND>>

\* a frame builder that leaves the delimiter byte unescaped
kiss_frame_delimiter_kept(data) ==
    LET d0 == addr \o <<CTRL_UI>> \o <<PID_NOLAYER3>> \o data
        d1 == replace(d0, FESC, <<FESC, TFESC>>)
    IN  <<FEND, 0>> \o d1 \o <<FEND>>

\* process_outgoing lines 289-293
kiss_frame(data) ==
    LET d0 == addr \o <<CTRL_UI>> \o <<PID_NOLAYER3>> \o data
        d1 == replace(d0, FESC, <<FESC, TFESC>>)
        d2 == replace(d1, FEND, <<FESC, TFEND>>)
    IN  <<FEND, 0>> \o d2 \o <<FEND>>

\* ------------------------------------------------------------ construction

Configs ==
    [port : BOOLEAN,
     callsign : {SubSeq(s, 1, n) : s \in CallSpellings, n \in CallLens},
     ssid : Ssids,
     flow_control : BOOLEAN]

InitWith(c) ==
    /\ cfg = c
    /\ src_call = <<>>
    /\ src_ssid = -1
    /\ flow_control = FALSE
    /\ online = FALSE
    /\ interface_ready = FALSE
    /\ packet_queue = <<>>
    /\ flow_control_locked = 0
    /\ serial = "none"
    /\ rx = <<>>
    /\ now = 0
    /\ pc = [t \in Threads |-> IF t = Main THEN "new" ELSE "unused"]
    /\ call = [t \in Threads |-> no_call]
    /\ rl = [t \in Readers |-> rl_locals(0)]
    /\ raised = "none"
    /\ inbound = <<>>
    /\ last_write = no_write
    /\ nsub = 0
    /\ attempt = [t \in Threads |-> "none"]
    /\ data_since_grant = 0

\* checks that let the SSID 16 and a callsign of 7 characters through
invalid_address_off_by_one(callsign, ssid) ==
    \/ Len(callsign) < 3 \/ Len(callsign) > 7
    \/ ssid < 0 \/ ssid > 16

\* __init__ lines 135-139: the checks of the callsign's length and of the SSID
invalid_address(callsign, ssid) ==
    \/ Len(callsign) < 3 \/ Len(callsign) > 6
    \/ ssid < 0 \/ ssid > 15

\* __init__ lines 104-151: the port check (which leaves the fields unset), the
\* fields, then the checks of callsign and SSID
constructor ==
    /\ pc[Main] = "new"
    /\ IF ~cfg.port
       THEN /\ raised' = "ValueError"
            /\ pc' = [pc EXCEPT ![Main] = "failed"]
            /\ UNCHANGED <<src_call, src_ssid, flow_control, online, interface_ready,
                           packet_queue, flow_control_locked>>
       ELSE /\ src_call' = upper(cfg.callsign)
            /\ src_ssid' = cfg.ssid
            /\ online' = FALSE
            /\ packet_queue' = <<>>
            /\ flow_control' = cfg.flow_control
            /\ interface_ready' = FALSE
            /\ flow_control_locked' = now
            /\ IF invalid_address(upper(cfg.callsign), cfg.ssid)
               THEN /\ raised' = "ValueError"
                    /\ pc' = [pc EXCEPT ![Main] = "failed"]
               ELSE /\ raised' = "none"
                    /\ pc' = [pc EXCEPT ![Main] = "open_port"]
    /\ UNCHANGED <<cfg, serial, rx, now, call, rl, inbound, last_write, nsub, attempt,
                   data_since_grant>>

\* where a thread goes when open_port or configure_device raises: the constructor
\* passes the exception on (lines 152-161), reconnect_port catches it (line 392)
after_raise(t) == IF t = Main THEN "failed" ELSE "reconnect_port"

\* where a thread goes when configure_device returns
after_configure(t) == IF t = Main THEN "idle" ELSE "reconnect_port"

\* open_port lines 163-177: a new Serial object, or the exception of a failed open
open_port(t, opened) ==
    /\ pc[t] = "open_port"
    /\ IF opened
       THEN /\ serial' = "open"
            /\ rx' = <<>>
            /\ pc' = [pc EXCEPT ![t] = "configure_device"]
            /\ UNCHANGED raised
       ELSE /\ pc' = [pc EXCEPT ![t] = after_raise(t)]
            /\ raised' = IF t = Main THEN "SerialException" ELSE raised
            /\ UNCHANGED <<serial, rx>>
    /\ attempt' = [attempt EXCEPT ![t] = IF opened \/ t = Main THEN "none" ELSE "raised"]
    /\ UNCHANGED <<cfg, src_call, src_ssid, flow_control, online, interface_ready,
                   packet_queue, flow_control_locked, now, call, rl, inbound,
                   last_write, nsub, data_since_grant>>

\* a thread start that hands the new reader the locals of the reader starting it
configure_device_inherits(t) ==
    /\ pc[t] = "configure_device"
    /\ \E u \in Readers :
        /\ pc[u] = "unused"
        /\ \A v \in Readers : v < u => pc[v] # "unused"
        /\ pc' = [pc EXCEPT ![t] = "set_online", ![u] = "readLoop"]
        /\ rl' = [rl EXCEPT ![u] = IF t \in Readers THEN rl[t] ELSE rl_locals(now)]
    /\ UNCHANGED <<cfg, src_call, src_ssid, flow_control, online, interface_ready,
                   packet_queue, flow_control_locked, serial, rx, now, call, raised,
                   inbound, last_write, nsub, attempt, data_since_grant>>

\* configure_device lines 181-184: the reader thread is started; its first
\* statements (readLoop lines 318-322) set its own locals
configure_device(t) ==
    /\ pc[t] = "configure_device"
    /\ \E u \in Readers :
        /\ pc[u] = "unused"
        /\ \A v \in Readers : v < u => pc[v] # "unused"
        /\ pc' = [pc EXCEPT ![t] = "set_online", ![u] = "readLoop"]
        /\ rl' = [rl EXCEPT ![u] = rl_locals(now)]
    /\ UNCHANGED <<cfg, src_call, src_ssid, flow_control, online, interface_ready,
                   packet_queue, flow_control_locked, serial, rx, now, call, raised,
                   inbound, last_write, nsub, attempt, data_since_grant>>

\* configure_device line 185
set_online(t) ==
    /\ pc[t] = "set_online"
    /\ online' = TRUE
    /\ pc' = [pc EXCEPT ![t] = "configure_parameters"]
    /\ UNCHANGED <<cfg, src_call, src_ssid, flow_control, interface_ready, packet_queue,
                   flow_control_locked, serial, rx, now, call, rl, raised, inbound,
                   last_write, nsub, attempt, data_since_grant>>

\* serial.write: "ok" (all bytes), "short" (fewer), or the exception of a port that
\* is not open
write_results == IF serial = "open" THEN {"ok", "short"} ELSE {"raise"}

\* setPreamble, setTxTail, setPersistence, setSlotTime, setFlowControl (lines
\* 196-253): the control frame each writes, in the order configure_device calls them
\* (lines 188-192)
setPreamble == kiss_command(CMD_TXDELAY, command_value(preamble))
setTxTail == kiss_command(CMD_TXTAIL, command_value(txtail))
setPersistence == kiss_command(CMD_P, clamp_byte(persistence))
setSlotTime == kiss_command(CMD_SLOTTIME, command_value(slottime))
setFlowControl == kiss_command(CMD_READY, 1)

setters == <<setPreamble, setTxTail, setPersistence, setSlotTime, setFlowControl>>

\* configure_device lines 188-192: the five setters in turn. The first k - 1 writes
\* are complete; write k ends as result says, and anything but "ok" raises (a short
\* count raises IOError, lines 206-207 and alike). The setters touch no field of the
\* interface, so the five writes are one step.
configure_parameters(t, k, result) ==
    /\ pc[t] = "configure_parameters"
    /\ k \in 1..Len(setters)
    /\ result \in write_results
    /\ result = "ok" => k = Len(setters)
    /\ attempt' = [attempt EXCEPT ![t] = IF result = "ok" \/ t = Main THEN "none" ELSE "raised"]
    /\ IF result = "raise" /\ k = 1
       THEN UNCHANGED last_write
       ELSE last_write' = [kind |-> "config", payload |-> <<>>,
                           bytes |-> IF result = "raise" THEN setters[k - 1] ELSE setters[k],
                           complete |-> (result # "short")]
    /\ IF result = "ok"
       THEN /\ pc' = [pc EXCEPT ![t] = "set_ready"]
            /\ UNCHANGED raised
       ELSE /\ pc' = [pc EXCEPT ![t] = after_raise(t)]
            /\ raised' = IF t # Main THEN raised
                         ELSE IF result = "short" THEN "IOError" ELSE "SerialException"
    /\ UNCHANGED <<cfg, src_call, src_ssid, flow_control, online, interface_ready,
                   packet_queue, flow_control_locked, serial, rx, now, call, rl, inbound,
                   nsub, data_since_grant>>

\* configure_device line 193, and the return
set_ready(t) ==
    /\ pc[t] = "set_ready"
    /\ interface_ready' = TRUE
    /\ data_since_grant' = 0
    /\ pc' = [pc EXCEPT ![t] = after_configure(t)]
    /\ attempt' = [attempt EXCEPT ![t] = IF t = Main THEN "none" ELSE "configured"]
    /\ UNCHANGED <<cfg, src_call, src_ssid, flow_control, online, packet_queue,
                   flow_control_locked, serial, rx, now, call, rl, raised, inbound,
                   last_write, nsub>>

\* ------------------------------------------------------------ the send path

\* where a thread goes when process_outgoing returns: the caller is idle again,
\* the reader is back at the head of its loop (process_queue was its last statement)
after_return(t) == IF t = Main THEN "idle" ELSE "readLoop"

\* where a thread goes when process_outgoing raises: the caller gets the exception,
\* the reader's try block catches it (line 370)
after_send_raise(t) == IF t = Main THEN "idle" ELSE "rl_except"

\* the owner hands a payload to process_outgoing (line 262)
send(P) ==
    /\ pc[Main] = "idle"
    /\ call' = [call EXCEPT ![Main] = [no_call EXCEPT !.data = P, !.src = "caller"]]
    /\ pc' = [pc EXCEPT ![Main] = "po_online"]
    /\ raised' = "none"
    /\ nsub' = nsub + 1
    /\ UNCHANGED <<cfg, src_call, src_ssid, flow_control, online, interface_ready,
                   packet_queue, flow_control_locked, serial, rx, now, rl, inbound,
                   last_write, data_since_grant, attempt>>

\* process_outgoing line 264
po_online(t) ==
    /\ pc[t] = "po_online"
    /\ IF online
       THEN /\ pc' = [pc EXCEPT ![t] = "po_ready"]
            /\ UNCHANGED call
       ELSE /\ pc' = [pc EXCEPT ![t] = after_return(t)]
            /\ call' = [call EXCEPT ![t] = no_call]
    /\ UNCHANGED <<cfg, src_call, src_ssid, flow_control, online, interface_ready,
                   packet_queue, flow_control_locked, serial, rx, now, rl, raised,
                   inbound, last_write, nsub, attempt, data_since_grant>>

\* a ready check that takes the flow-control lock whatever the setting
po_ready_always_locks(t) ==
    /\ pc[t] = "po_ready"
    /\ IF interface_ready
       THEN /\ pc' = [pc EXCEPT ![t] = "po_lock"]
            /\ UNCHANGED <<packet_queue, call>>
       ELSE /\ packet_queue' = Append(packet_queue, call[t].data)
            /\ pc' = [pc EXCEPT ![t] = after_return(t)]
            /\ call' = [call EXCEPT ![t] = no_call]
    /\ UNCHANGED <<cfg, src_call, src_ssid, flow_control, online, interface_ready,
                   flow_control_locked, serial, rx, now, rl, raised, inbound,
                   last_write, nsub, attempt, data_since_grant>>

\* process_outgoing lines 265-266 and 302-306: ready, or queue the payload
po_ready(t) ==
    /\ pc[t] = "po_ready"
    /\ IF interface_ready
       THEN /\ pc' = [pc EXCEPT ![t] = IF flow_control THEN "po_lock" ELSE "po_write"]
            /\ UNCHANGED <<packet_queue, call>>
       ELSE /\ packet_queue' = Append(packet_queue, call[t].data)
            /\ pc' = [pc EXCEPT ![t] = after_return(t)]
            /\ call' = [call EXCEPT ![t] = no_call]
    /\ UNCHANGED <<cfg, src_call, src_ssid, flow_control, online, interface_ready,
                   flow_control_locked, serial, rx, now, rl, raised, inbound,
                   last_write, nsub, attempt, data_since_grant>>

\* process_outgoing line 267
po_lock(t) ==
    /\ pc[t] = "po_lock"
    /\ interface_ready' = FALSE
    /\ pc' = [pc EXCEPT ![t] = "po_locked"]
    /\ UNCHANGED <<cfg, src_call, src_ssid, flow_control, online, packet_queue,
                   flow_control_locked, serial, rx, now, call, rl, raised, inbound,
                   last_write, nsub, attempt, data_since_grant>>

\* process_outgoing line 268
po_locked(t) ==
    /\ pc[t] = "po_locked"
    /\ flow_control_locked' = now
    /\ pc' = [pc EXCEPT ![t] = "po_write"]
    /\ UNCHANGED <<cfg, src_call, src_ssid, flow_control, online, interface_ready,
                   packet_queue, serial, rx, now, call, rl, raised, inbound,
                   last_write, nsub, attempt, data_since_grant>>

\* process_outgoing lines 270-298: the frame is built and written
po_write(t, result) ==
    /\ pc[t] = "po_write"
    /\ result \in write_results
    /\ IF result = "raise"
       THEN UNCHANGED last_write
       ELSE last_write' = [kind |-> "data", payload |-> call[t].data,
                           bytes |-> kiss_frame(call[t].data),
                           complete |-> (result = "ok")]
    /\ data_since_grant' =
         IF result = "ok" /\ data_since_grant < 2 THEN data_since_grant + 1
         ELSE data_since_grant
    /\ CASE result = "ok" ->
              /\ pc' = [pc EXCEPT ![t] = after_return(t)]
              /\ call' = [call EXCEPT ![t] = no_call]
              /\ UNCHANGED raised
         [] result = "short" ->
              /\ pc' = [pc EXCEPT ![t] = "po_fail"]
              /\ UNCHANGED <<call, raised>>
         [] result = "raise" ->
              /\ pc' = [pc EXCEPT ![t] = after_send_raise(t)]
              /\ call' = [call EXCEPT ![t] = no_call]
              /\ raised' = IF t = Main THEN "SerialException" ELSE raised
    /\ UNCHANGED <<cfg, src_call, src_ssid, flow_control, online, interface_ready,
                   packet_queue, flow_control_locked, serial, rx, now, rl, inbound,
                   nsub, attempt>>

\* a short-write handler that puts the payload back in the queue
po_fail_requeues(t) ==
    /\ pc[t] = "po_fail"
    /\ interface_ready' = IF flow_control THEN TRUE ELSE interface_ready
    /\ packet_queue' = Append(packet_queue, call[t].data)
    /\ pc' = [pc EXCEPT ![t] = after_send_raise(t)]
    /\ call' = [call EXCEPT ![t] = no_call]
    /\ raised' = IF t = Main THEN "IOError" ELSE raised
    /\ UNCHANGED <<cfg, src_call, src_ssid, flow_control, online,
                   flow_control_locked, serial, rx, now, rl, inbound, last_write,
                   nsub, attempt, data_since_grant>>

\* process_outgoing lines 298-301: a short write
po_fail(t) ==
    /\ pc[t] = "po_fail"
    /\ interface_ready' = IF flow_control THEN TRUE ELSE interface_ready
    /\ pc' = [pc EXCEPT ![t] = after_send_raise(t)]
    /\ call' = [call EXCEPT ![t] = no_call]
    /\ raised' = IF t = Main THEN "IOError" ELSE raised
    /\ UNCHANGED <<cfg, src_call, src_ssid, flow_control, online, packet_queue,
                   flow_control_locked, serial, rx, now, rl, inbound, last_write,
                   nsub, attempt, data_since_grant>>

\* process_queue lines 309-310 and 313, as called by reader t: the oldest payload is
\* taken, if there is one. src is the caller's reason ("rx": a ready signal,
\* "timeout": the flow-control time-out, with the lock time it read)
process_queue(t, src, locked0) ==
    /\ IF Len(packet_queue) > 0
       THEN /\ call' = [call EXCEPT ![t] = [data |-> Head(packet_queue), popped |-> TRUE,
                                            src |-> src, locked0 |-> locked0]]
            /\ packet_queue' = Tail(packet_queue)
       ELSE /\ call' = [call EXCEPT ![t] = [no_call EXCEPT !.src = src,
                                                           !.locked0 = locked0]]
            /\ UNCHANGED packet_queue
    /\ pc' = [pc EXCEPT ![t] = "pq_ready"]

\* process_queue lines 311-312 and 314
pq_ready(t) ==
    /\ pc[t] = "pq_ready"
    /\ interface_ready' = TRUE
    /\ data_since_grant' = 0
    /\ IF call[t].popped
       THEN /\ pc' = [pc EXCEPT ![t] = "po_online"]
            /\ UNCHANGED call
       ELSE /\ pc' = [pc EXCEPT ![t] = "readLoop"]
            /\ call' = [call EXCEPT ![t] = no_call]
    /\ UNCHANGED <<cfg, src_call, src_ssid, flow_control, online, packet_queue,
                   flow_control_locked, serial, rx, now, rl, raised, inbound,
                   last_write, nsub, attempt>>

\* ------------------------------------------------------------ the reader

\* process_incoming lines 256-259: what the owner gets of a completed frame
process_incoming(data) ==
    IF Len(data) > HEADER_SIZE
    THEN <<SubSeq(data, HEADER_SIZE + 1, Len(data))>>
    ELSE <<>>

\* a cap that lets one byte more into the buffer
buffer_has_room_for_one_more(l) == Len(l.data_buffer) <= HW_MTU + HEADER_SIZE

\* readLoop line 336: the cap on the accumulated frame
buffer_has_room(l) == Len(l.data_buffer) < HW_MTU + HEADER_SIZE

\* readLoop lines 329-354 on one byte: the locals afterwards, the payloads handed
\* to the owner, and whether process_queue is called
handle_byte(l, byte) ==
    IF l.in_frame /\ byte = FEND /\ l.command = CMD_DATA
    THEN [locals |-> [l EXCEPT !.in_frame = FALSE, !.expired = FALSE],
          delivered |-> process_incoming(l.data_buffer), drain |-> FALSE]
    ELSE IF byte = FEND
    THEN [locals |-> [l EXCEPT !.in_frame = TRUE, !.command = CMD_UNKNOWN,
                               !.data_buffer = <<>>, !.drains = 0,
                               !.expired = FALSE],
          delivered |-> <<>>, drain |-> FALSE]
    ELSE IF l.in_frame /\ buffer_has_room(l)
    THEN IF Len(l.data_buffer) = 0 /\ l.command = CMD_UNKNOWN
         THEN [locals |-> [l EXCEPT !.command = BitAnd(byte, 15)],
               delivered |-> <<>>, drain |-> FALSE]
         ELSE IF l.command = CMD_DATA
         THEN IF byte = FESC
              THEN [locals |-> [l EXCEPT !.escape = TRUE],
                    delivered |-> <<>>, drain |-> FALSE]
              ELSE LET b1 == IF l.escape /\ byte = TFEND THEN FEND ELSE byte
                       b2 == IF l.escape /\ b1 = TFESC THEN FESC ELSE b1
                   IN  [locals |-> [l EXCEPT !.escape = FALSE,
                                             !.data_buffer = Append(l.data_buffer, b2)],
                        delivered |-> <<>>, drain |-> FALSE]
         ELSE IF l.command = CMD_READY
         THEN [locals |-> [l EXCEPT !.drains = IF l.drains < 2 THEN l.drains + 1 ELSE 2],
               delivered |-> <<>>, drain |-> TRUE]
         ELSE [locals |-> l, delivered |-> <<>>, drain |-> FALSE]
    ELSE [locals |-> l, delivered |-> <<>>, drain |-> FALSE]

\* an idle time-out that leaves a pending escape in place
idle_timeout_keeps_escape(l) ==
    IF Len(l.data_buffer) > 0 /\ now - l.last_read_ms > timeout
    THEN [l EXCEPT !.data_buffer = <<>>, !.in_frame = FALSE,
                   !.command = CMD_UNKNOWN, !.expired = TRUE]
    ELSE l

\* readLoop lines 356-361: the idle time-out
idle_timeout(l) ==
    IF Len(l.data_buffer) > 0 /\ now - l.last_read_ms > timeout
    THEN [l EXCEPT !.data_buffer = <<>>, !.in_frame = FALSE,
                   !.command = CMD_UNKNOWN, !.escape = FALSE, !.expired = TRUE]
    ELSE l

\* readLoop lines 324-368, one pass of the loop: the loop condition; in_waiting,
\* which raises when the transport fails; then either one byte is read and handled,
\* or, with nothing to read, the idle time-out, the sleep and the flow-control
\* time-out. A pass that calls process_queue goes on there.
readLoop(t, fault) ==
    /\ pc[t] = "readLoop"
    /\ fault => serial = "open"
    /\ IF serial # "open"
       THEN /\ pc' = [pc EXCEPT ![t] = "rl_exit"]
            /\ UNCHANGED <<rx, rl, inbound, call, packet_queue>>
       ELSE IF fault
       THEN /\ pc' = [pc EXCEPT ![t] = "rl_except"]
            /\ UNCHANGED <<rx, rl, inbound, call, packet_queue>>
       ELSE IF rx # <<>>
       THEN LET h == handle_byte([rl[t] EXCEPT !.last_read_ms = now], Head(rx))
            IN  /\ rx' = Tail(rx)
                /\ rl' = [rl EXCEPT ![t] = h.locals]
                /\ inbound' = inbound \o h.delivered
                /\ IF h.drain
                   THEN process_queue(t, "rx", 0)
                   ELSE UNCHANGED <<pc, call, packet_queue>>
       ELSE /\ rl' = [rl EXCEPT ![t] = idle_timeout(rl[t])]
            /\ UNCHANGED <<rx, inbound>>
            /\ IF flow_control /\ ~interface_ready
                  /\ now > flow_control_locked + flow_control_timeout * 1000
               THEN process_queue(t, "timeout", flow_control_locked)
               ELSE UNCHANGED <<pc, call, packet_queue>>
    /\ UNCHANGED <<cfg, src_call, src_ssid, flow_control, online, interface_ready,
                   flow_control_locked, serial, now, raised, last_write, nsub, attempt,
                   data_since_grant>>

\* readLoop lines 370-378: the exception handler
rl_except(t) ==
    /\ pc[t] = "rl_except"
    /\ online' = FALSE
    /\ pc' = [pc EXCEPT ![t] = "rl_exit"]
    /\ call' = [call EXCEPT ![t] = no_call]
    /\ UNCHANGED <<cfg, src_call, src_ssid, flow_control, interface_ready, packet_queue,
                   flow_control_locked, serial, rx, now, rl, raised, inbound,
                   last_write, nsub, attempt, data_since_grant>>

\* readLoop line 380
rl_exit(t) ==
    /\ pc[t] = "rl_exit"
    /\ online' = FALSE
    /\ pc' = [pc EXCEPT ![t] = "rl_close"]
    /\ UNCHANGED <<cfg, src_call, src_ssid, flow_control, interface_ready, packet_queue,
                   flow_control_locked, serial, rx, now, call, rl, raised, inbound,
                   last_write, nsub, attempt, data_since_grant>>

\* readLoop lines 381-382: the transport is closed and reconnect_port is entered
rl_close(t) ==
    /\ pc[t] = "rl_close"
    /\ serial' = "closed"
    /\ pc' = [pc EXCEPT ![t] = "reconnect_port"]
    /\ UNCHANGED <<cfg, src_call, src_ssid, flow_control, online, interface_ready,
                   packet_queue, flow_control_locked, rx, now, call, rl, raised,
                   inbound, last_write, nsub, attempt, data_since_grant>>

\* reconnect_port lines 385-387 and 395: the loop condition; the thread ends when
\* the interface is online
reconnect_port(t) ==
    /\ pc[t] = "reconnect_port"
    /\ IF ~online
       THEN /\ pc' = [pc EXCEPT ![t] = "open_port"]
            /\ UNCHANGED rl
       ELSE /\ pc' = [pc EXCEPT ![t] = "unused"]
            /\ rl' = [rl EXCEPT ![t] = rl_locals(0)]
    /\ attempt' = [attempt EXCEPT ![t] = "none"]
    /\ UNCHANGED <<cfg, src_call, src_ssid, flow_control, online, interface_ready,
                   packet_queue, flow_control_locked, serial, rx, now, call, raised,
                   inbound, last_write, nsub, data_since_grant>>

\* ------------------------------------------------------------ the environment

\* time passes
Tick ==
    /\ now + TickStep <= MaxTime
    /\ now' = now + TickStep
    /\ UNCHANGED <<cfg, src_call, src_ssid, flow_control, online, interface_ready,
                   packet_queue, flow_control_locked, serial, rx, pc, call, rl, raised,
                   inbound, last_write, nsub, attempt, data_since_grant>>

\* the reader threads that are in their loop
Reading == {t \in Readers : pc[t] \in {"readLoop", "pq_ready", "po_online", "po_ready",
                                       "po_lock", "po_locked", "po_write", "po_fail"}}

\* the device sends a byte
Feed(b) ==
    /\ serial = "open"
    /\ Len(rx) < MaxRx
    /\ \A t \in Reading : Len(rl[t].data_buffer) < MaxBuf
    /\ rx' = Append(rx, b)
    /\ UNCHANGED <<cfg, src_call, src_ssid, flow_control, online, interface_ready,
                   packet_queue, flow_control_locked, serial, now, pc, call, rl, raised,
                   inbound, last_write, nsub, attempt, data_since_grant>>

\* the device sends back the data frame the host last wrote, to an idle reader, as
\* long as the owner has got nothing
Loopback ==
    /\ serial = "open"
    /\ rx = <<>>
    /\ inbound = <<>>
    /\ last_write.kind = "data"
    /\ last_write.complete
    /\ pc[Main] = "idle"
    /\ \A t \in Reading : ~rl[t].in_frame
    /\ rx' = last_write.bytes
    /\ UNCHANGED <<cfg, src_call, src_ssid, flow_control, online, interface_ready,
                   packet_queue, flow_control_locked, serial, now, pc, call, rl, raised,
                   inbound, last_write, nsub, attempt, data_since_grant>>

\* the device sends a delimiter or a zero byte (the data command, or a data byte),
\* one at a time, as long as the owner has got nothing
FloodBytes == {FEND, CMD_DATA}

Flood(b) ==
    /\ serial = "open"
    /\ rx = <<>>
    /\ inbound = <<>>
    /\ rx' = <<b>>
    /\ UNCHANGED <<cfg, src_call, src_ssid, flow_control, online, interface_ready,
                   packet_queue, flow_control_locked, serial, now, pc, call, rl, raised,
                   inbound, last_write, nsub, attempt, data_since_grant>>

\* the data frame the host last wrote, as the device sends it back
echo == last_write.bytes

\* what the device may send ahead of a frame: data frames cut short, a ready signal
\* with and without its closing delimiter, and stray bytes
Truncated == {SubSeq(echo, 1, n) : n \in 1..(Len(echo) - 1)}
Garbage == Truncated \cup {<<FEND, CMD_READY, FEND>>, <<FEND, CMD_READY>>,
                           <<65>>, <<FESC>>, <<TFEND, 65>>}

\* what it may send and then fall silent: the same, unless it ends in a delimiter
Fragments == {g \in Garbage : g[Len(g)] # FEND}

\* the device sends a fragment and nothing after it, to a reader that is idle with
\* nothing buffered
Garble(g) ==
    /\ serial = "open"
    /\ rx = <<>>
    /\ inbound = <<>>
    /\ last_write.kind = "data"
    /\ last_write.complete
    /\ pc[Main] = "idle"
    /\ g \in Fragments
    /\ \A t \in Reading : ~rl[t].in_frame /\ ~rl[t].escape /\ ~rl[t].expired
                          /\ rl[t].command = CMD_UNKNOWN
    /\ rx' = g
    /\ UNCHANGED <<cfg, src_call, src_ssid, flow_control, online, interface_ready,
                   packet_queue, flow_control_locked, serial, now, pc, call, rl, raised,
                   inbound, last_write, nsub, attempt, data_since_grant>>

\* the device sends the complete frame, straight after g, whatever state the reader
\* is in, as long as the owner has got nothing
Stream(g) ==
    /\ serial = "open"
    /\ rx = <<>>
    /\ inbound = <<>>
    /\ last_write.kind = "data"
    /\ last_write.complete
    /\ pc[Main] = "idle"
    /\ g \in Garbage \cup {<<>>}
    /\ rx' = g \o echo
    /\ UNCHANGED <<cfg, src_call, src_ssid, flow_control, online, interface_ready,
                   packet_queue, flow_control_locked, serial, now, pc, call, rl, raised,
                   inbound, last_write, nsub, attempt, data_since_grant>>

\* ------------------------------------------------------------ specifications

\* the steps of open_port, configure_device and process_outgoing, which the main
\* thread and the reader threads both run, with every outcome of the transport;
\* a configuration that fails does so at its first or at its last write
Step(t) ==
    \/ \E opened \in BOOLEAN : open_port(t, opened)
    \/ configure_device(t)
    \/ set_online(t)
    \/ \E k \in {1, Len(setters)}, r \in {"ok", "short", "raise"} :
          configure_parameters(t, k, r)
    \/ set_ready(t)
    \/ po_online(t)
    \/ po_ready(t)
    \/ po_lock(t)
    \/ po_locked(t)
    \/ \E r \in {"ok", "short", "raise"} : po_write(t, r)
    \/ po_fail(t)

ReaderStep(t) ==
    \/ \E fault \in BOOLEAN : readLoop(t, fault)
    \/ rl_except(t)
    \/ rl_exit(t)
    \/ rl_close(t)
    \/ reconnect_port(t)

\* the same steps on a transport that never fails
ReliableStep(t) ==
    \/ open_port(t, TRUE)
    \/ configure_device(t)
    \/ set_online(t)
    \/ configure_parameters(t, Len(setters), "ok")
    \/ set_ready(t)
    \/ po_online(t)
    \/ po_ready(t)
    \/ po_lock(t)
    \/ po_locked(t)
    \/ po_write(t, "ok")

\* the configuration of the interleaved specifications, with either flow-control
\* setting
Init ==
    \E fc \in BOOLEAN :
        InitWith([port |-> TRUE, callsign |-> <<65, 98, 67, 68, 69>>, ssid |-> 1,
                  flow_control |-> fc])

\* Spec: the lifecycle on a transport that can fail at every open, write and read,
\* interleaved with the owner submitting the payloads <<1>>, <<2>>, ... in turn.
Next ==
    \/ constructor
    \/ \E t \in Threads : Step(t)
    \/ \E t \in Readers : ReaderStep(t)
    \/ (nsub < MaxSubmit /\ send(<<nsub + 1>>))

Spec == Init /\ [][Next]_vars

\* SpecFlow: flow control on a reliable transport: the owner submitting payloads,
\* the device sending delimiters and ready signals, and the clock.
NextFlow ==
    \/ constructor
    \/ \E t \in Threads : ReliableStep(t)
    \/ \E t \in Readers : readLoop(t, FALSE)
    \/ \E t \in Readers : pq_ready(t)
    \/ (nsub < MaxSends /\ send(<<nsub + 1>>))
    \/ \E b \in FeedBytes : Feed(b)
    \/ Tick

SpecFlow == Init /\ [][NextFlow]_vars

\* SpecLink: one payload sent and looped back by the device, on a transport whose
\* opens and reads can fail.
NextLink ==
    \/ constructor
    \/ \E t \in Threads : ReliableStep(t)
    \/ \E t \in Threads : open_port(t, FALSE)
    \/ \E t \in Readers : ReaderStep(t)
    \/ (nsub < 1 /\ \E P \in LinkPayloads : send(P))
    \/ Loopback

SpecLink == Init /\ [][NextLink]_vars

\* SpecCodec: every configuration, valid or not, and every payload, sent once and
\* looped back on a reliable transport.
InitCodec == \E c \in Configs : InitWith(c)

NextCodec ==
    \/ constructor
    \/ \E t \in Threads : ReliableStep(t)
    \/ \E t \in Readers : readLoop(t, FALSE)
    \/ (nsub < 1 /\ \E P \in Payloads : send(P))
    \/ Loopback

SpecCodec == InitCodec /\ [][NextCodec]_vars

\* SpecFail: flow control on a transport whose data writes can come up short: the
\* owner submitting payloads, the flow-control time-out draining the queue, and the
\* reader's failure handling and reconnect.
NextFail ==
    \/ constructor
    \/ \E t \in Threads : ReliableStep(t)
    \/ \E t \in Threads, r \in {"short", "raise"} : po_write(t, r)
    \/ \E t \in Threads : po_fail(t)
    \/ \E t \in Readers : readLoop(t, FALSE)
    \/ \E t \in Readers : pq_ready(t)
    \/ \E t \in Readers : rl_except(t) \/ rl_exit(t) \/ rl_close(t) \/ reconnect_port(t)
    \/ (nsub < MaxSubmit /\ send(<<nsub + 1>>))
    \/ Tick

SpecFail == Init /\ [][NextFail]_vars

\* SpecFlood: the reader of a constructed interface fed delimiters and zero bytes
\* without end, so that a data frame grows past the buffer's cap.
NextFlood ==
    \/ constructor
    \/ \E t \in Threads : open_port(t, TRUE)
    \/ \E t \in Threads : configure_device(t)
    \/ \E t \in Threads : set_online(t)
    \/ \E t \in Threads : configure_parameters(t, Len(setters), "ok")
    \/ \E t \in Threads : set_ready(t)
    \/ \E t \in Readers : readLoop(t, FALSE)
    \/ \E b \in FloodBytes : Flood(b)

SpecFlood == Init /\ [][NextFlood]_vars

\* SpecStream: one payload sent on a reliable transport, and the device sending its
\* frame back behind cut-off frames, ready signals and stray bytes, with and without
\* a silence in between.
NextStream ==
    \/ constructor
    \/ \E t \in Threads : ReliableStep(t)
    \/ \E t \in Readers : readLoop(t, FALSE)
    \/ \E t \in Readers : pq_ready(t)
    \/ (nsub < 1 /\ \E P \in LinkPayloads : send(P))
    \/ \E g \in Fragments : Garble(g)
    \/ \E g \in Garbage \cup {<<>>} : Stream(g)
    \/ Tick

SpecStream == Init /\ [][NextStream]_vars

\* ------------------------------------------------------------ the codec's claims

\* reader t has consumed a complete data frame and nothing is left to read
FrameConsumed(t) ==
    /\ pc[t] = "readLoop"
    /\ ~rl[t].in_frame
    /\ rl[t].command = CMD_DATA
    /\ rx = <<>>

\* C1 (amended): for every payload P of 1 to HW_MTU bytes, an idle reader fed
\* exactly the bytes process_outgoing wrote for P has, once it has consumed them,
\* made exactly one owner.inbound call, with P; and the owner never gets more than
\* that one call, nor anything but P.
C1_RoundTrip ==
    /\ \A t \in Readers :
         (FrameConsumed(t) /\ Len(last_write.payload) >= 1
                           /\ Len(last_write.payload) <= HW_MTU)
            => inbound = <<last_write.payload>>
    /\ Len(inbound) <= 1
    /\ \A i \in 1..Len(inbound) : inbound[i] = last_write.payload

\* C1 as stated: for every payload P, the empty one included, the reader that has
\* consumed the bytes written for P has made exactly one owner.inbound call, with P.
C1_EveryPayload ==
    \A t \in Readers : FrameConsumed(t) => inbound = <<last_write.payload>>

\* a payload of the two reserved bytes, behind a header that holds a delimiter byte
\* itself, has come back to the owner
C1_Witness ==
    \E t \in Readers :
        /\ FrameConsumed(t)
        /\ last_write.payload = <<FEND, FESC>>
        /\ src_call[1] = 96
        /\ inbound = <<<<FEND, FESC>>>>

\* a frame with a delimiter at each end and none between, and each escape byte
\* between them followed by one of the two transposed bytes
WellFramed(f) ==
    /\ Len(f) >= 2
    /\ f[1] = FEND
    /\ f[Len(f)] = FEND
    /\ \A i \in 2..(Len(f) - 1) :
         /\ f[i] # FEND
         /\ f[i] = FESC => (i + 1 <= Len(f) - 1 /\ f[i + 1] \in {TFEND, TFESC})

\* C8: every data frame process_outgoing writes has exactly one delimiter 0xC0 at
\* each end, no other 0xC0, and each 0xDB between the delimiters is immediately
\* followed by 0xDC or 0xDD.
C8_Framed ==
    last_write.kind = "data" => WellFramed(last_write.bytes)

\* a frame was written whose payload is an escape byte and a delimiter, behind a
\* header that holds a delimiter byte
C8_Witness ==
    /\ last_write.kind = "data"
    /\ last_write.payload = <<FESC, FEND>>
    /\ src_call[1] = 96
    /\ Len(last_write.bytes) = 2 + 2 + HEADER_SIZE + 4

\* the address field the claim describes: the characters shifted left one bit,
\* padded to six bytes with shifted spaces, then the SSID byte
shifted_address(callsign, ssid_byte) ==
    [i \in 1..6 |-> IF i <= Len(callsign) THEN ShiftLeft(callsign[i], 1)
                    ELSE ShiftLeft(32, 1)] \o <<ssid_byte>>

\* the 16-byte header the claim describes
shifted_header ==
    shifted_address(dst_call, BitOr(96, ShiftLeft(dst_ssid, 1)))
        \o shifted_address(src_call, BitOr(BitOr(96, ShiftLeft(src_ssid, 1)), 1))
        \o <<3, 240>>

\* C9: with flow control disabled, the data frame process_outgoing(P) writes is the
\* delimiter, command 0x00, the escaped header and payload, and the delimiter,
\* where the header pads the source callsign with shifted spaces.
C9_Frame ==
    (~flow_control /\ last_write.kind = "data")
        => last_write.bytes
             = <<FEND, 0>> \o escape(shifted_header \o last_write.payload) \o <<FEND>>

\* the configurations the constructor is to accept
ValidCfg(c) ==
    /\ c.port
    /\ Len(c.callsign) >= 3 /\ Len(c.callsign) <= 6
    /\ c.ssid >= 0 /\ c.ssid <= 15

\* C10: with an invalid configuration the constructor raises a configuration error
\* before any transport is opened: open_port is never reached, no reader is started
\* and the interface stays offline.
C10_Rejected ==
    ~ValidCfg(cfg) =>
        /\ pc[Main] \in {"new", "failed"}
        /\ pc[Main] = "failed" => raised = "ValueError"
        /\ serial = "none"
        /\ ~online
        /\ \A t \in Readers : pc[t] = "unused"

\* the constructor has raised for the SSID 16 with a port and a good callsign
C10_Witness ==
    /\ pc[Main] = "failed"
    /\ raised = "ValueError"
    /\ cfg.port
    /\ cfg.ssid = 16
    /\ Len(cfg.callsign) = 5

\* ------------------------------------------------------------ flow control's claims

\* reader t consumes the delimiter that ends a ready-signal frame
EndsReadyFrame(t) ==
    /\ pc[t] = "readLoop"
    /\ rx # <<>>
    /\ Head(rx) = FEND
    /\ rx' = Tail(rx)
    /\ rl[t].in_frame
    /\ rl[t].command = CMD_READY
    /\ rl'[t].command = CMD_UNKNOWN

\* C2: each ready-signal frame readLoop consumes leads to exactly one process_queue
\* call: when the reader takes the delimiter that ends the frame, it has called
\* process_queue once for it.
C2_OncePerSignal ==
    [][\A t \in Readers : EndsReadyFrame(t) => rl[t].drains = 1]_vars

\* C3: with flow control enabled, no second data frame is written on one readiness
\* grant (a ready signal processed, the flow-control time-out fired, or the
\* configuration's end).
C3_OneFramePerGrant ==
    flow_control => data_since_grant <= 1

\* the process_queue call reader t made for the flow-control time-out returns
TimeoutDrainReturns(t) ==
    /\ call[t].src = "timeout"
    /\ pc[t] # "readLoop"
    /\ pc'[t] = "readLoop"

\* C4: when the process_queue call made for the flow-control time-out returns,
\* either the oldest queued payload was sent and interface_ready is false with a
\* fresh lock time, or the queue was empty and interface_ready is true.
C4_ConsistentAfterTimeout ==
    [][\A t \in Readers :
         TimeoutDrainReturns(t) =>
            \/ /\ call[t].popped
               /\ pc[t] = "po_write"
               /\ ~interface_ready'
               /\ flow_control_locked' > call[t].locked0
            \/ /\ ~call[t].popped
               /\ interface_ready']_vars

\* ------------------------------------------------------------ the lifecycle's claims

\* the constructor has returned the interface to its owner
Constructed ==
    pc[Main] \in {"idle", "po_online", "po_ready", "po_lock", "po_locked", "po_write",
                  "po_fail"}

OnlyReconnecting(t) ==
    /\ pc[Main] = "idle"
    /\ \A u \in Readers \ {t} : pc[u] \in {"unused", "readLoop"}

\* C7: a failed open or a failed configuration write always leads to another
\* attempt: reconnect_port does not return after an attempt that raised (stated for
\* the runs where no other thread is in open_port or configure_device).
C7_FailureRetries ==
    [][\A t \in Readers :
         (pc[t] = "reconnect_port" /\ attempt[t] = "raised" /\ OnlyReconnecting(t))
            => pc'[t] # "unused"]_vars

\* reader t is in the middle of a data frame, with more than a header accumulated
MidFrame(t) ==
    /\ rl[t].in_frame
    /\ rl[t].command = CMD_DATA
    /\ Len(rl[t].data_buffer) > HEADER_SIZE

Holding(P) ==
    {t \in Threads : pc[t] \in {"po_online", "po_ready", "po_lock", "po_locked",
                                "po_write", "pq_ready"}
                     /\ call[t].data = P}

\* C11: a short write ends the send with an error raised to its caller (IOError to
\* the owner, the reader's exception handler for a drain) and leaves packet_queue as
\* it was, without the payload; and from the short write to the next write the
\* payload is neither queued nor held by any send, so it is never written again.
C11_NoRequeue ==
    [][/\ \A t \in Threads :
            (pc[t] = "po_fail" /\ pc'[t] # pc[t]) =>
                /\ t = Main => (pc'[t] = "idle" /\ raised' = "IOError")
                /\ t # Main => pc'[t] = "rl_except"
                /\ packet_queue' = packet_queue
                /\ \A i \in 1..Len(packet_queue') : packet_queue'[i] # call[t].data
       /\ (last_write'.kind = "data" /\ ~last_write'.complete) =>
            /\ \A i \in 1..Len(packet_queue') : packet_queue'[i] # last_write'.payload
            /\ \A t \in Threads : pc'[t] # "po_fail" =>
                                     t \notin Holding(last_write.payload)']_vars

\* the drain of a queued payload has ended in a short write: the reader is in its
\* exception handler, the payload is gone and another one is still queued
C11_Witness ==
    \E t \in Readers :
        /\ pc[t] = "rl_except"
        /\ last_write.kind = "data"
        /\ ~last_write.complete
        /\ last_write.payload = <<2>>
        /\ nsub = 2

\* ------------------------------------------------------------ configuration's claims

\* C12: a configuration write with a wrong byte count (or one that raises) aborts
\* configure_device and leaves the interface not marked online, the interface being
\* marked online only after the five control frames are written.
C12_FailedConfigurationOffline ==
    [][\A t \in Threads :
         (pc[t] = "configure_parameters" /\ pc'[t] = after_raise(t)) => ~online']_vars

\* C13: when a reconnect has reopened and configured the transport, the flow-control
\* state is back at its initial values: packet_queue is empty, whatever was queued
\* when the transport failed, the ready flag is set and the lock time is the time of
\* the reopen.
C13_ResetOnReopen ==
    [][\A t \in Readers :
         (pc[t] = "set_ready" /\ pc'[t] # pc[t]) =>
            /\ packet_queue' = <<>>
            /\ interface_ready'
            /\ flow_control_locked' = now']_vars

\* ------------------------------------------------------------ concurrency's claims

\* C14: process_outgoing (called by the owner or by process_queue) issues its
\* transport write only while the transport is open, never between the reader's
\* close and the next successful reopen.
C14_WritesWhileOpen ==
    [][\A t \in Threads :
         (pc[t] = "po_write" /\ pc'[t] # pc[t]) => serial = "open"]_vars

\* ------------------------------------------------------------ the reader's claims

\* C15: the reader's buffer never holds more than HW_MTU + HEADER_SIZE bytes: a data
\* byte read with the buffer at the cap leaves the buffer as it is, and no payload
\* handed to the owner is longer than HW_MTU bytes.
C15_BufferCap ==
    [][/\ \A t \in Readers :
            /\ Len(rl'[t].data_buffer) <= HW_MTU + HEADER_SIZE
            /\ (Len(rl[t].data_buffer) = HW_MTU + HEADER_SIZE
                /\ rx # <<>> /\ Head(rx) # FEND)
                  => rl'[t].data_buffer = rl[t].data_buffer
       /\ \A i \in 1..Len(inbound') : Len(inbound'[i]) <= HW_MTU]_vars

\* a frame that had filled the buffer to the cap has been handed to the owner, with
\* HW_MTU bytes of payload
C15_Witness ==
    /\ Len(inbound) = 1
    /\ Len(inbound[1]) = HW_MTU
    /\ \E t \in Readers : Len(rl[t].data_buffer) = HW_MTU + HEADER_SIZE

\* reader t polls with nothing to read, a non-empty buffer and the last byte more
\* than the time-out ago
IdleExpiry(t) ==
    /\ pc[t] = "readLoop"
    /\ serial = "open"
    /\ rx = <<>>
    /\ Len(rl[t].data_buffer) > 0
    /\ now - rl[t].last_read_ms > timeout
    /\ rl'[t] # rl[t]

\* reader t is idle: not in a frame, nothing buffered, command unknown, no escape
\* pending
Idle(l) ==
    /\ ~l.in_frame
    /\ l.data_buffer = <<>>
    /\ l.command = CMD_UNKNOWN
    /\ ~l.escape

\* C16: a poll that finds nothing to read, a non-empty buffer and the last byte more
\* than 100 ms ago discards the buffer and leaves the reader idle, handing nothing
\* to the owner; and the reader then stays idle, accumulating nothing, until it
\* reads a delimiter.
C16_IdleTimeout ==
    [][\A t \in Readers :
         /\ IdleExpiry(t) => (Idle(rl'[t]) /\ inbound' = inbound)
         /\ rl'[t].expired => Idle(rl'[t])]_vars

\* the time-out has discarded what reader t had accumulated, and the complete frame
\* is now arriving
C16_Witness ==
    \E t \in Readers :
        /\ pc[t] = "readLoop"
        /\ rl[t].expired
        /\ rx = echo
        /\ now > timeout

\* reader t takes a delimiter from the transport
ReadsDelimiter(t) ==
    /\ pc[t] = "readLoop"
    /\ rx # <<>>
    /\ Head(rx) = FEND
    /\ rx' = Tail(rx)
    /\ rl'[t] # rl[t]

\* C17: the escaped state never survives a delimiter: right after the reader has
\* consumed a delimiter it is not in a frame with an escape pending.
C17_EscapeEndsAtDelimiter ==
    [][\A t \in Readers :
         ReadsDelimiter(t) => ~(rl'[t].in_frame /\ rl'[t].escape)]_vars

\* C18: whatever the reader consumed before, when it has taken the last byte of a
\* complete well-formed data frame the owner has got that frame's payload, once,
\* and nothing else.
C18_FrameAfterGarbage ==
    [][(rx = <<FEND>> /\ rx' = <<>>) => inbound' = <<last_write.payload>>]_vars


\* ------------------------------------------------------------ the lifecycle's threads

\* the reader threads inside the body of reconnect_port's loop (lines 387-391)
Reconnecting == {t \in Readers : pc[t] \in {"open_port", "configure_device", "set_online",
                                            "configure_parameters", "set_ready"}}

\* C19: at any time at most one reader loop and at most one reconnect loop are
\* active, also when a reader started by configure_device fails while
\* configure_device is still writing the configuration.
C19_OneReaderOneReconnect ==
    /\ Cardinality(Reading) <= 1
    /\ Cardinality(Reconnecting) <= 1


\* ------------------------------------------------------------ the order of sends

\* thread t hands the payload of its call to the open transport
Writes(t) ==
    /\ pc[t] = "po_write"
    /\ pc'[t] # "po_write"
    /\ serial = "open"

\* payloads are numbered in the order the owner submits them
SubmittedBefore(P, Q) == P[1] < Q[1]

\* C20: outbound payloads keep their submission order: no payload is written to the
\* transport while a payload submitted before it is waiting in packet_queue.
C20_SubmissionOrder ==
    [][\A t \in Threads :
         Writes(t) => \A i \in 1..Len(packet_queue) :
                          ~SubmittedBefore(packet_queue[i], call[t].data)]_vars

====
